---- MODULE Spec2Model ----
(***************************************************************************)
(* Model of agents/tools/write_utils.py and agents/tools/search.py.        *)
(*                                                                         *)
(* write_utils.py (specification Spec, one call; SpecSeq, calls one after  *)
(* the other; SpecConc, two callers step by step): the file mutation calls *)
(* add_code, replace_code and delete_code, the span resolver               *)
(* find_function_or_class_boundaries, and the backup / restore protocol.   *)
(*                                                                         *)
(* Text is a sequence of atoms.  An atom is one character (" ", "\t",      *)
(* "\n", "@", "(", ":") or one indivisible word ("def", "class", "f", "g", *)
(* "x", ...).  A file on disk is one flat sequence of atoms; readlines()   *)
(* and writelines() convert between that and the list of lines, each line  *)
(* keeping its own "\n".  Line indices are 0-based as in the Python code;  *)
(* At(lines, i) is Python's lines[i].                                      *)
(***************************************************************************)
EXTENDS Integers, Sequences, FiniteSets, TLC

VARIABLES disk, pre, res, tree, sres, conc

vars == <<disk, pre, res, tree, sres, conc>>

----------------------------------------------------------------------------
(* Bounds of the model *)

MaxLines == 3

MaxSearchLines == 3

MaxResults == 2

MaxCalls == 2

----------------------------------------------------------------------------
(* Characters and Python string helpers *)

SP == " "
TAB == "\t"
NL == "\n"

Whitespace == {SP, TAB, NL}

RECURSIVE lstrip(_)
lstrip(s) ==
  IF s # <<>> /\ Head(s) \in Whitespace THEN lstrip(Tail(s)) ELSE s

RECURSIVE rstrip(_)
rstrip(s) ==
  IF s # <<>> /\ s[Len(s)] \in Whitespace
  THEN rstrip(SubSeq(s, 1, Len(s) - 1))
  ELSE s

strip(s) == rstrip(lstrip(s))

startswith(s, p) == Len(p) <= Len(s) /\ SubSeq(s, 1, Len(p)) = p

endswith(s, p) ==
  Len(p) <= Len(s) /\ SubSeq(s, Len(s) - Len(p) + 1, Len(s)) = p

(* Python's `p in s` for strings *)
contains(s, p) ==
  \E i \in 1..(Len(s) - Len(p) + 1) : SubSeq(s, i, i + Len(p) - 1) = p

At(lines, i) == lines[i + 1]

Min(S) == CHOOSE x \in S : \A y \in S : x <= y

(* Python's lines[:k] and lines[k:], negative k counting from the end *)
SliceTo(lines, k) ==
  LET n == Len(lines)
      kk == IF k < 0 THEN (IF n + k < 0 THEN 0 ELSE n + k)
            ELSE (IF k > n THEN n ELSE k)
  IN SubSeq(lines, 1, kk)

SliceFrom(lines, k) ==
  LET n == Len(lines)
      kk == IF k < 0 THEN (IF n + k < 0 THEN 0 ELSE n + k)
            ELSE (IF k > n THEN n ELSE k)
  IN SubSeq(lines, kk + 1, n)

RECURSIVE concat(_)
concat(lines) ==
  IF lines = <<>> THEN <<>> ELSE Head(lines) \o concat(Tail(lines))

----------------------------------------------------------------------------
(* The file system: the target path and its "<path>.backup" *)

Target == "path"
Backup == "path.backup"

Absent == [exists |-> FALSE, content |-> <<>>]

File(c) == [exists |-> TRUE, content |-> c]

(* os.path.exists that answers True for every path *)
exists_always(d, p) == TRUE

exists(d, p) == d[p].exists

(* a copy that leaves an existing destination as it is *)
copy2_no_overwrite(d, src, dst) ==
  IF d[dst].exists THEN d ELSE [d EXCEPT ![dst] = d[src]]

copy2(d, src, dst) == [d EXCEPT ![dst] = d[src]]

(* backup_file that copies nothing *)
backup_file_noop(d) == d

backup_file(d) == copy2(d, Target, Backup)

(* f.readlines(): split after every "\n", each line keeps its "\n" *)
RECURSIVE split_lines(_, _, _)
split_lines(c, i, cur) ==
  IF i > Len(c)
  THEN (IF cur = <<>> THEN <<>> ELSE <<cur>>)
  ELSE IF c[i] = NL
       THEN <<Append(cur, NL)>> \o split_lines(c, i + 1, <<>>)
       ELSE split_lines(c, i + 1, Append(cur, c[i]))

read_file_lines(d) == split_lines(d[Target].content, 1, <<>>)

(* write_file_lines that writes nothing: the file keeps its content *)
write_file_lines_kept(d, lines, written) == d

(* open(path, 'w') truncates, f.writelines(lines) writes the lines one     *)
(* after the other: `written` atoms reach the disk (all of them when the   *)
(* write succeeds, any prefix when it fails).                              *)
write_file_lines(d, lines, written) ==
  [d EXCEPT ![Target] = File(SubSeq(concat(lines), 1, written))]

----------------------------------------------------------------------------
(* The span resolver *)

indent_of(line) == Len(line) - Len(lstrip(line))

(* walk_back without the `or line == ''` test: blank lines stop the walk    *)
RECURSIVE walk_back_no_blank(_, _, _)
walk_back_no_blank(lines, i, actual_start) ==
  IF i < 0
  THEN actual_start
  ELSE LET line == strip(At(lines, i))
       IN IF startswith(line, <<"@">>)
          THEN walk_back_no_blank(lines, i - 1, i)
          ELSE actual_start

(* lines 46-53: walk up from the line above the declaration while the      *)
(* lines are blank or start with "@"                                       *)
RECURSIVE walk_back(_, _, _)
walk_back(lines, i, actual_start) ==
  IF i < 0
  THEN actual_start
  ELSE LET line == strip(At(lines, i))
       IN IF startswith(line, <<"@">>) \/ line = <<>>
          THEN walk_back(lines, i - 1, i)
          ELSE actual_start

(* ends_block with `<` for `<=`: a line as deep as the declaration does    *)
(* not end the block                                                       *)
ends_block_strict(line, base_indent) ==
  /\ strip(line) # <<>>
  /\ indent_of(line) < base_indent
  /\ \/ startswith(strip(line), <<"def", SP>>)
     \/ startswith(strip(line), <<"class", SP>>)
     \/ startswith(strip(line), <<"if __name__">>)
     \/ ~startswith(line, <<SP>>)

(* lines 61-71: the test that ends the forward scan at line i *)
ends_block(line, base_indent) ==
  /\ strip(line) # <<>>
  /\ indent_of(line) <= base_indent
  /\ \/ startswith(strip(line), <<"def", SP>>)
     \/ startswith(strip(line), <<"class", SP>>)
     \/ startswith(strip(line), <<"if __name__">>)
     \/ ~startswith(line, <<SP>>)

(* the resolver with the forward scan left out: the span ends right after  *)
(* the declaration line                                                    *)
find_function_or_class_boundaries_one_line(lines, start_line, target_name) ==
  LET start_idx == start_line - 1
      actual_start == walk_back(lines, start_idx - 1, start_idx)
  IN <<actual_start, start_idx + 1>>

find_function_or_class_boundaries(lines, start_line, target_name) ==
  LET start_idx == start_line - 1
      actual_start == walk_back(lines, start_idx - 1, start_idx)
      base_indent == indent_of(At(lines, start_idx))
      stops == {i \in (start_idx + 1)..(Len(lines) - 1) :
                  ends_block(At(lines, i), base_indent)}
      end_idx == IF stops = {} THEN Len(lines) ELSE Min(stops)
  IN <<actual_start, end_idx>>

(* find_symbol without the `break`: the last matching line wins *)
find_symbol_last(lines, target_type, target_name) ==
  LET hits == {i \in 0..(Len(lines) - 1) :
                 contains(At(lines, i), <<target_type, SP>> \o target_name)}
  IN IF hits = {} THEN -1 ELSE CHOOSE i \in hits : \A j \in hits : j <= i

(* `for i, line in enumerate(lines): if f"{type} {name}" in line: ... break` *)
(* the index of the first matching line, -1 when the loop finds none       *)
find_symbol(lines, target_type, target_name) ==
  LET hits == {i \in 0..(Len(lines) - 1) :
                 contains(At(lines, i), <<target_type, SP>> \o target_name)}
  IN IF hits = {} THEN -1 ELSE Min(hits)

----------------------------------------------------------------------------
(* Locators: the optional arguments of the three calls.  <<>> is None (and *)
(* the empty name, which the code treats like None); <<n>> is the value n. *)

NoLoc ==
  [line_number |-> <<>>, function_name |-> <<>>, class_name |-> <<>>,
   start_line |-> <<>>, end_line |-> <<>>]

Fail(d, e) ==
  [disk |-> d, status |-> "error", err |-> e, lo |-> 0, hi |-> 0, decl |-> -1]

Ok(d, lo, hi, decl) ==
  [disk |-> d, status |-> "ok", err |-> "none", lo |-> lo, hi |-> hi,
   decl |-> decl]

(* restore with the copy from the backup left out *)
restore_skipped(d) == d

(* `except Exception: if os.path.exists(backup_path): copy2(backup, file)` *)
restore(d) == IF exists(d, Backup) THEN copy2(d, Backup, Target) ELSE d

ensure_newline(code) ==
  IF endswith(code, <<NL>>) THEN code ELSE Append(code, NL)

(* resolve_locator with the start_line / end_line branch tested before the *)
(* function_name / class_name branch                                       *)
resolve_locator_range_first(lines, loc) ==
  IF loc.line_number # <<>>
  THEN [err |-> "none", start |-> loc.line_number[1] - 1,
        end |-> loc.line_number[1] - 1, decl |-> -1]
  ELSE IF loc.start_line # <<>> /\ loc.end_line # <<>>
  THEN [err |-> "none", start |-> loc.start_line[1] - 1,
        end |-> loc.end_line[1] - 1, decl |-> -1]
  ELSE IF loc.function_name # <<>> \/ loc.class_name # <<>>
  THEN LET target_name == IF loc.function_name # <<>>
                          THEN loc.function_name ELSE loc.class_name
           target_type == IF loc.function_name # <<>> THEN "def" ELSE "class"
           i == find_symbol(lines, target_type, target_name)
       IN IF i = -1
          THEN [err |-> "not_found", start |-> 0, end |-> 0, decl |-> -1]
          ELSE LET b == find_function_or_class_boundaries(lines, i + 1,
                                                          target_name)
               IN [err |-> "none", start |-> b[1], end |-> b[2] - 1,
                   decl |-> i]
  ELSE [err |-> "no_locator", start |-> 0, end |-> 0, decl |-> -1]

(* The if / elif chain of replace_code and delete_code that turns the      *)
(* arguments into replace_start, replace_end (0-based, inclusive)          *)
resolve_locator(lines, loc) ==
  IF loc.line_number # <<>>
  THEN [err |-> "none", start |-> loc.line_number[1] - 1,
        end |-> loc.line_number[1] - 1, decl |-> -1]
  ELSE IF loc.function_name # <<>> \/ loc.class_name # <<>>
  THEN LET target_name == IF loc.function_name # <<>>
                          THEN loc.function_name ELSE loc.class_name
           target_type == IF loc.function_name # <<>> THEN "def" ELSE "class"
           i == find_symbol(lines, target_type, target_name)
       IN IF i = -1
          THEN [err |-> "not_found", start |-> 0, end |-> 0, decl |-> -1]
          ELSE LET b == find_function_or_class_boundaries(lines, i + 1,
                                                          target_name)
               IN [err |-> "none", start |-> b[1], end |-> b[2] - 1,
                   decl |-> i]
  ELSE IF loc.start_line # <<>> /\ loc.end_line # <<>>
  THEN [err |-> "none", start |-> loc.start_line[1] - 1,
        end |-> loc.end_line[1] - 1, decl |-> -1]
  ELSE [err |-> "no_locator", start |-> 0, end |-> 0, decl |-> -1]

(* the validation with `<=` for `<`: a span that starts at the first line  *)
(* of the file is rejected                                                 *)
out_of_bounds_first_line(lines, start, end) ==
  start <= 0 \/ end >= Len(lines)

(* "Validate indices" *)
out_of_bounds(lines, start, end) == start < 0 \/ end >= Len(lines)

(* The write at the end of each call and what the call returns: the write  *)
(* succeeds, or fails (in open(), or after any prefix of the new content   *)
(* reached the truncated file) and the except clause restores the backup.  *)
save(d, new_lines, io, lo, hi, decl) ==
  IF io = "write_fail"
  THEN {Fail(restore(d), "write")} \cup
       {Fail(restore(write_file_lines(d, new_lines, w)), "write") :
          w \in 0..Len(concat(new_lines))}
  ELSE {Ok(write_file_lines(d, new_lines, Len(concat(new_lines))),
           lo, hi, decl)}

(* clamp_insert_idx without the `if insert_idx < 0` branch *)
clamp_insert_idx_no_floor(insert_idx, len) ==
  IF insert_idx > len THEN len ELSE insert_idx

(* add_code, lines 109-113: an insert index outside the file is moved to   *)
(* the nearest end of the file                                             *)
clamp_insert_idx(insert_idx, len) ==
  IF insert_idx < 0 THEN 0
  ELSE IF insert_idx > len THEN len ELSE insert_idx

(* Each call is the set of its possible outcomes for the given arguments   *)
(* and the given behaviour of the file system (io).                        *)
add_code(d, code0, loc, io) ==
  IF ~exists(d, Target)
  THEN {Fail(d, "not_exist")}
  ELSE LET d1 == backup_file(d) IN
  IF io = "read_fail"
  THEN {Fail(restore(d1), "read")}
  ELSE LET lines == read_file_lines(d1)
           code == ensure_newline(code0)
       IN
  IF loc.line_number # <<>>
  THEN LET insert_idx == clamp_insert_idx(loc.line_number[1] - 1, Len(lines))
       IN save(d1, SliceTo(lines, insert_idx) \o <<code>>
                     \o SliceFrom(lines, insert_idx),
               io, insert_idx + 1, insert_idx + 1, -1)
  ELSE IF loc.function_name # <<>> \/ loc.class_name # <<>>
  THEN LET target_name == IF loc.function_name # <<>>
                          THEN loc.function_name ELSE loc.class_name
           target_type == IF loc.function_name # <<>> THEN "def" ELSE "class"
           i == find_symbol(lines, target_type, target_name)
       IN IF i = -1
          THEN {Fail(restore(d1), "not_found")}
          ELSE LET insert_idx ==
                     find_function_or_class_boundaries(lines, i + 1,
                                                       target_name)[2]
               IN save(d1, SliceTo(lines, insert_idx) \o <<code>>
                             \o SliceFrom(lines, insert_idx),
                       io, insert_idx + 1, insert_idx + 1, i)
  ELSE save(d1, lines \o <<code>>, io, Len(lines) + 1, Len(lines) + 1, -1)

replace_code(d, new_code0, loc, io) ==
  IF ~exists(d, Target)
  THEN {Fail(d, "not_exist")}
  ELSE LET d1 == backup_file(d) IN
  IF io = "read_fail"
  THEN {Fail(restore(d1), "read")}
  ELSE LET lines == read_file_lines(d1)
           new_code == ensure_newline(new_code0)
           r == resolve_locator(lines, loc)
       IN
  IF r.err # "none"
  THEN {Fail(restore(d1), r.err)}
  ELSE IF out_of_bounds(lines, r.start, r.end)
  THEN {Fail(restore(d1), "out_of_bounds")}
  ELSE save(d1, SliceTo(lines, r.start) \o <<new_code>>
                  \o SliceFrom(lines, r.end + 1),
            io, r.start + 1, r.end + 1, r.decl)

delete_code(d, loc, io) ==
  IF ~exists(d, Target)
  THEN {Fail(d, "not_exist")}
  ELSE LET d1 == backup_file(d) IN
  IF io = "read_fail"
  THEN {Fail(restore(d1), "read")}
  ELSE LET lines == read_file_lines(d1)
           r == resolve_locator(lines, loc)
       IN
  IF r.err # "none"
  THEN {Fail(restore(d1), r.err)}
  ELSE IF out_of_bounds(lines, r.start, r.end)
  THEN {Fail(restore(d1), "out_of_bounds")}
  ELSE save(d1, SliceTo(lines, r.start) \o SliceFrom(lines, r.end + 1),
            io, r.start + 1, r.end + 1, r.decl)

----------------------------------------------------------------------------
(* The files the calls are applied to and the arguments they are given *)

DefF == <<"def", SP, "f", "(">>
DefFG == <<"def", SP, "f", "g", "(">>
ClassF == <<"class", SP, "f", ":">>

(* The texts a line of the initial file is drawn from *)
LineTexts ==
  { <<>>, <<"@">>, <<"x">>, DefF, DefFG,
    <<SP, "x">>, <<SP>> \o DefF, <<TAB, "x">> }

RECURSIVE join(_)
join(texts) ==
  IF texts = <<>> THEN <<>>
  ELSE IF Len(texts) = 1 THEN texts[1]
  ELSE Head(texts) \o <<NL>> \o join(Tail(texts))

(* Every file of at most MaxLines lines, with or without a final newline *)
SmallFiles ==
  UNION { {join(t), join(t) \o <<NL>>} :
            t \in UNION {[1..n -> LineTexts] : n \in 1..MaxLines} }
    \cup {<<>>}

(* Larger files: the example of the boundary detection property, a class   *)
(* with decorated methods, a nested block closed by `if __name__`.         *)
(* def g(): / x = 1 / if x: / y = 2 / z = 3, the function called `outer`   *)
(* in the boundary detection example                                       *)
OuterExample ==
  join(<< <<"def", SP, "g", "(">>, <<SP, "x">>, <<SP, "if", SP, "x", ":">>,
          <<SP, SP, "y">>, <<"z">> >>)

ExampleFiles ==
  { OuterExample,
    join(<< <<"x">>, <<>>, <<"@">>, ClassF, <<SP, "@">>, <<SP>> \o DefF,
            <<SP, SP, "x">>, <<SP, "x">>, <<"x">> >>) \o <<NL>>,
    join(<< ClassF, <<SP>> \o ClassF, <<SP, SP, "x">>, <<SP, "if __name__">>,
            <<SP, "x">> >>) \o <<NL>> }

Files == SmallFiles \cup ExampleFiles

Names == { <<"f">>, <<"g">> }

LineArgs == (-1)..(MaxLines + 2)

RangeArgs == 0..(MaxLines + 1)

(* One locator form, none, or several at once *)
Locators ==
  {NoLoc}
  \cup {[NoLoc EXCEPT !.line_number = <<n>>] : n \in LineArgs}
  \cup {[NoLoc EXCEPT !.function_name = nm] : nm \in Names}
  \cup {[NoLoc EXCEPT !.class_name = nm] : nm \in Names}
  \cup {[NoLoc EXCEPT !.start_line = <<s>>, !.end_line = <<e>>] :
          s \in RangeArgs, e \in RangeArgs}
  \cup {[NoLoc EXCEPT !.start_line = <<1>>],
        [NoLoc EXCEPT !.end_line = <<1>>],
        [NoLoc EXCEPT !.line_number = <<1>>, !.function_name = <<"g">>],
        [NoLoc EXCEPT !.line_number = <<1>>, !.start_line = <<2>>,
                      !.end_line = <<2>>],
        [NoLoc EXCEPT !.function_name = <<"f">>, !.class_name = <<"g">>],
        [NoLoc EXCEPT !.function_name = <<"g">>, !.start_line = <<1>>,
                      !.end_line = <<1>>]}

(* add_code has no start_line / end_line parameters *)
AddLocators == {l \in Locators : l.start_line = <<>> /\ l.end_line = <<>>}

Codes == { <<"z">>, <<"y", NL, "z", NL>> }

IO == {"ok", "read_fail", "write_fail"}

----------------------------------------------------------------------------
(***************************************************************************)
(* Model of agents/tools/search.py: search_internal walks the files of a   *)
(* codebase, collects the lines matching the query under a mode, scores    *)
(* them, sorts and truncates.  Here text is a sequence of single           *)
(* characters, so that substring tests, str.count, str.lower and the       *)
(* regular expressions act on what they act on in Python.  Scores are kept *)
(* in tenths (5.0 is 50, the bonus of 0.1 per occurrence is 1).            *)
(***************************************************************************)

Letters ==
  {"a", "b", "c", "d", "e", "f", "g", "h", "i", "j", "k", "l", "m", "n",
   "o", "p", "q", "r", "s", "t", "u", "v", "w", "x", "y", "z"}

(* str.lower() on one character; "S" is the one capital of the alphabet *)
lower_char(c) == IF c = "S" THEN "s" ELSE c

lower(s) == [i \in 1..Len(s) |-> lower_char(s[i])]

(* the characters the regular expression class \w accepts *)
is_word_char(c) == c \in Letters \cup {"S", "_"}

(* s[i : i + len(w)] == w, 1-based i *)
match_at(s, i, w) ==
  i >= 1 /\ i + Len(w) - 1 <= Len(s) /\ SubSeq(s, i, i + Len(w) - 1) = w

(* index of the first character at or after i that \s does not accept *)
RECURSIVE skip_ws(_, _)
skip_ws(s, i) ==
  IF i <= Len(s) /\ s[i] \in Whitespace THEN skip_ws(s, i + 1) ELSE i

(* index of the first ")" at or after i, Len(s) + 1 when there is none *)
RECURSIVE next_close(_, _)
next_close(s, i) ==
  IF i <= Len(s) /\ s[i] # ")" THEN next_close(s, i + 1) ELSE i

(* Python's s.count(q): occurrences that do not overlap, left to right *)
RECURSIVE count(_, _)
count(s, q) ==
  IF Len(s) < Len(q) THEN 0
  ELSE IF startswith(s, q) THEN 1 + count(SubSeq(s, Len(q) + 1, Len(s)), q)
  ELSE count(Tail(s), q)

(* \b between s[p] and s[p + 1]; the ends of the string count as non-word *)
word_boundary(s, p) ==
  LET before == p >= 1 /\ is_word_char(s[p])
      after == p < Len(s) /\ is_word_char(s[p + 1])
  IN before # after

(* re.search(rf'\b{re.escape(q)}\b', s) *)
search_word(s, q) ==
  \E i \in 1..(Len(s) - Len(q) + 1) :
    /\ match_at(s, i, q)
    /\ word_boundary(s, i - 1)
    /\ word_boundary(s, i + Len(q) - 1)

search_contains(query, content, case_sensitive) ==
  IF case_sensitive THEN contains(content, query)
  ELSE contains(lower(content), lower(query))

(* re.search(rf'{kw}\s+{q}\s*\(', content, re.IGNORECASE); q does not      *)
(* start with white space, so \s+ takes all the white space after kw       *)
search_keyword_def(kw, query, content) ==
  LET c == lower(content)
      q == lower(query)
  IN \E i \in 1..Len(c) :
       /\ match_at(c, i, kw)
       /\ LET j == skip_ws(c, i + Len(kw))
              k == skip_ws(c, j + Len(q))
          IN /\ j > i + Len(kw)
             /\ match_at(c, j, q)
             /\ match_at(c, k, <<"(">>)

(* re.search(rf'{q}\s*\([^)]*\)\s*{{', content, re.IGNORECASE) *)
search_call_brace(query, content) ==
  LET c == lower(content)
      q == lower(query)
  IN \E i \in 1..Len(c) :
       /\ match_at(c, i, q)
       /\ LET k == skip_ws(c, i + Len(q))
              m == next_close(c, k + 1)
              n == skip_ws(c, m + 1)
          IN /\ match_at(c, k, <<"(">>)
             /\ m <= Len(c)
             /\ match_at(c, n, <<"{">>)

search_function_def(query, content) ==
  \/ search_keyword_def(<<"d", "e", "f">>, query, content)
  \/ search_keyword_def(<<"f", "u", "n", "c", "t", "i", "o", "n">>,
                        query, content)
  \/ search_call_brace(query, content)

(* mode EXACT of search_internal *)
search_exact(query, content, case_sensitive) ==
  IF case_sensitive THEN query = strip(content)
  ELSE lower(query) = lower(strip(content))

calculate_relevance_score(line_content, query) ==
  LET line == lower(line_content)
      query_lower == lower(query)
      score ==
        IF query_lower = strip(line) THEN 50
        ELSE IF \/ contains(line, <<"d", "e", "f", " ">>)
                \/ contains(line, <<"c", "l", "a", "s", "s", " ">>) THEN 40
        ELSE IF startswith(strip(line), query_lower) THEN 30
        ELSE IF search_word(line, query_lower) THEN 25
        ELSE 10
  IN score + count(line, query_lower)

ignore_dirs ==
  {".git", "__pycache__", "node_modules", ".venv", "venv", "env", "dist",
   "build"}

file_extensions ==
  {".py", ".js", ".ts", ".jsx", ".tsx", ".java", ".cpp", ".c", ".h"}

ignore_files == {".pyc", ".pyo", ".pyd", ".so", ".dll"}

(* root is the parts of codebase_dir, f.dirs the directories from there to *)
(* the file, f.ext the end of the file name.  Path(file_path).parts holds  *)
(* the parts of the root as well; the file name itself, which carries an   *)
(* extension, is never a member of ignore_dirs.                            *)
should_process_file(root, f) ==
  LET parts == root \o f.dirs
  IN /\ \A p \in 1..Len(parts) : parts[p] \notin ignore_dirs
     /\ f.ext \in file_extensions
     /\ f.ext \notin ignore_files

(* os.walk with `dirs[:] = [d for d in dirs if d not in ignore_dirs]`: a   *)
(* file below an ignored directory is never listed                         *)
walked(f) == \A p \in 1..Len(f.dirs) : f.dirs[p] \notin ignore_dirs

match_found(mode, query, line_content, case_sensitive) ==
  CASE mode = "contains" -> search_contains(query, line_content, case_sensitive)
    [] mode = "exact" -> search_exact(query, line_content, case_sensitive)
    [] mode = "function_def" -> search_function_def(query, line_content)

(* the loop over the lines of one file, from 0-based index idx on: append  *)
(* each match, leave the loop once 2 * max_results matches are held        *)
RECURSIVE scan_lines(_, _, _, _, _)
scan_lines(fi, lines, idx, matches, a) ==
  IF idx >= Len(lines) THEN matches
  ELSE LET line_content == rstrip(At(lines, idx))
       IN IF match_found(a.mode, a.query, line_content, a.case_sensitive)
          THEN LET m == [file |-> fi, line_number |-> idx + 1,
                         line_content |-> line_content,
                         confidence |->
                           calculate_relevance_score(line_content, a.query)]
                   ms == Append(matches, m)
               IN IF Len(ms) >= a.max_results * 2 THEN ms
                  ELSE scan_lines(fi, lines, idx + 1, ms, a)
          ELSE scan_lines(fi, lines, idx + 1, matches, a)

(* the loop over the files in the order os.walk lists them; the break of   *)
(* the line loop does not leave this one                                   *)
RECURSIVE scan_files(_, _, _, _)
scan_files(t, fi, matches, a) ==
  IF fi > Len(t.files) THEN matches
  ELSE LET f == t.files[fi]
       IN IF walked(f) /\ should_process_file(t.root, f)
          THEN scan_files(t, fi + 1,
                          scan_lines(fi, f.lines, 0, matches, a), a)
          ELSE scan_files(t, fi + 1, matches, a)

(* list.sort(key=confidence, reverse=True): stable, descending *)
RECURSIVE insert_sorted(_, _)
insert_sorted(sorted, m) ==
  IF sorted = <<>> THEN <<m>>
  ELSE IF sorted[Len(sorted)].confidence >= m.confidence
       THEN Append(sorted, m)
       ELSE Append(insert_sorted(SubSeq(sorted, 1, Len(sorted) - 1), m),
                   sorted[Len(sorted)])

RECURSIVE sort_by_confidence(_)
sort_by_confidence(ms) ==
  IF ms = <<>> THEN <<>>
  ELSE insert_sorted(sort_by_confidence(SubSeq(ms, 1, Len(ms) - 1)),
                     ms[Len(ms)])

(* the outcome of search_internal: the error for a missing directory, the  *)
(* no-matches message, or the matches it formats and returns               *)
search_internal(t, a) ==
  IF ~t.exists THEN [status |-> "no_directory", matches |-> <<>>]
  ELSE LET matches == scan_files(t, 1, <<>>, a)
           ranked == IF a.sort_by_relevance THEN sort_by_confidence(matches)
                     ELSE matches
       IN IF matches = <<>> THEN [status |-> "no_matches", matches |-> <<>>]
          ELSE [status |-> "ok", matches |-> SliceTo(ranked, a.max_results)]

----------------------------------------------------------------------------
(* The codebases search_internal is run on and the arguments it is given *)

(* `  sum` *)
ExactLine ==
  <<" ", " ", "s", "u", "m">>

(* `def sum(a, b):` *)
DefLine ==
  <<"d", "e", "f", " ", "s", "u", "m", "(", "a", ",", " ", "b", ")",
    ":">>

(* `total = sum(x)` *)
CallLine ==
  <<"t", "o", "t", "a", "l", " ", "=", " ", "s", "u", "m", "(", "x",
    ")">>

(* `Sum(x)` *)
PrefixLine ==
  <<"S", "u", "m", "(", "x", ")">>

(* `checksum` *)
SubstringLine ==
  <<"c", "h", "e", "c", "k", "s", "u", "m">>

(* `t = sum(a)+sum(b)+sum(c)+sum(d)+sum(e)+sum(f)+sum(g)` *)
ManyCallsLine ==
  <<"t", " ", "=", " ", "s", "u", "m", "(", "a", ")", "+", "s", "u",
    "m", "(", "b", ")", "+", "s", "u", "m", "(", "c", ")", "+", "s",
    "u", "m", "(", "d", ")", "+", "s", "u", "m", "(", "e", ")", "+",
    "s", "u", "m", "(", "f", ")", "+", "s", "u", "m", "(", "g", ")">>

(* `function sum(a, b) {` *)
JsDefLine ==
  <<"f", "u", "n", "c", "t", "i", "o", "n", " ", "s", "u", "m", "(",
    "a", ",", " ", "b", ")", " ", "{">>

(* `if sum(a) { return sum(b) }` *)
IfCallLine ==
  <<"i", "f", " ", "s", "u", "m", "(", "a", ")", " ", "{", " ", "r",
    "e", "t", "u", "r", "n", " ", "s", "u", "m", "(", "b", ")", " ",
    "}">>

(* The texts a line of a searched file is drawn from *)
SearchLineTexts ==
  {ExactLine, DefLine, CallLine, PrefixLine, SubstringLine, ManyCallsLine,
   JsDefLine, IfCallLine}

(* readlines() of a file of at most n lines *)
SearchLineLists(n) ==
  UNION {[1..k -> {l \o <<NL>> : l \in SearchLineTexts}] : k \in 0..n}

SourceFile(dirs, ext, lines) == [dirs |-> dirs, ext |-> ext, lines |-> lines]

(* a second file: beside the first one, below build/, or not source code *)
OtherFiles ==
  {SourceFile(<<>>, ".py", <<ExactLine \o <<NL>> >>),
   SourceFile(<<"build">>, ".py", <<ExactLine \o <<NL>> >>),
   SourceFile(<<>>, ".md", <<ExactLine \o <<NL>> >>)}

(* codebase_dir: /home/proj, or a checkout below a directory called build *)
Root == <<"/", "home", "proj">>

BuildRoot == <<"/", "home", "build", "proj">>

NoTree == [exists |-> FALSE, root |-> <<>>, files |-> <<>>]

Tree(root, files) == [exists |-> TRUE, root |-> root, files |-> files]

(* one file of at most MaxSearchLines lines, or a shorter one and a second *)
(* file listed after it                                                    *)
Trees ==
  {NoTree}
  \cup {Tree(Root, <<SourceFile(<<>>, ".py", ls)>>) :
          ls \in SearchLineLists(MaxSearchLines)}
  \cup {Tree(Root, <<SourceFile(<<>>, ".py", ls), g>>) :
          ls \in SearchLineLists(MaxSearchLines - 1), g \in OtherFiles}
  \cup {Tree(BuildRoot, <<g>>) : g \in OtherFiles}

Query == <<"s", "u", "m">>

SearchModes == {"contains", "exact", "function_def"}

SearchArgs ==
  [query : {Query}, mode : SearchModes, max_results : 1..MaxResults,
   case_sensitive : BOOLEAN, sort_by_relevance : BOOLEAN]

NoSearch ==
  [args |-> [query |-> <<>>, mode |-> "contains", max_results |-> 1,
             case_sensitive |-> FALSE, sort_by_relevance |-> TRUE],
   status |-> "none", matches |-> <<>>]

----------------------------------------------------------------------------
(* The state machine of two callers on the same path.  Each caller makes   *)
(* one call; the call is taken apart into the steps at which it touches    *)
(* the disk, and the steps of the two callers interleave freely: the code  *)
(* takes no lock.  conc.calls[c] is the call of caller c: its arguments,   *)
(* its position, the lines it read (seen), the content it is about to      *)
(* write (out) and how it ended.  conc.overlap records that a step was     *)
(* taken while the other call was under way, conc.last the caller that     *)
(* returned last.                                                          *)

Callers == {1, 2}

Other(c) == 3 - c

ConcFiles ==
  { <<"x", NL>>, <<"x", NL, "y", NL>>, join(<<DefF, <<SP, "x">> >>) \o <<NL>> }

Request(op, code, loc, io) ==
  [op |-> op, code |-> code, loc |-> loc, io |-> io, pc |-> "start",
   seen |-> <<>>, out |-> <<>>, status |-> "none", err |-> "none"]

(* the calls a caller may make: some succeed on every file, some fail with *)
(* could-not-find or out-of-bounds, some meet an I/O error                 *)
Requests ==
  {Request("add", <<"z">>, NoLoc, io) : io \in IO}
  \cup {Request("replace", <<"y">>, [NoLoc EXCEPT !.line_number = <<1>>],
                "ok"),
        Request("delete", <<>>, [NoLoc EXCEPT !.line_number = <<1>>], "ok"),
        Request("delete", <<>>, [NoLoc EXCEPT !.line_number = <<3>>], "ok"),
        Request("delete", <<>>, [NoLoc EXCEPT !.function_name = <<"f">>],
                "ok")}

(* the call as a whole, on disk d *)
whole_call(r, d) ==
  CASE r.op = "add" -> add_code(d, r.code, r.loc, r.io)
    [] r.op = "replace" -> replace_code(d, r.code, r.loc, r.io)
    [] r.op = "delete" -> delete_code(d, r.loc, r.io)

(* the body of the try block between the read and the write, on the lines  *)
(* the call has read: the error it raises, or the content it will write    *)
edit(r, lines) ==
  LET snapshot == [p \in {Target, Backup} |->
                     IF p = Target THEN File(concat(lines)) ELSE Absent]
      o == CHOOSE x \in whole_call([r EXCEPT !.io = "ok"], snapshot) : TRUE
  IN [status |-> o.status, err |-> o.err,
      content |-> o.disk[Target].content]

(* lines_to_write that reads the file again when the write starts *)
lines_to_write_reread(r, d) == edit(r, read_file_lines(d)).content

(* what write_file_lines is handed: the list made from the lines read at   *)
(* the start of the call, whatever the file holds by now                   *)
lines_to_write(r, d) == edit(r, r.seen).content

NoCallers ==
  [calls |-> [c \in Callers |-> Request("none", <<>>, NoLoc, "ok")],
   overlap |-> FALSE, last |-> 0]

----------------------------------------------------------------------------
(* The state machine: a file on disk, then one call; a delete_code call     *)
(* that succeeded may be issued once more with the same arguments.  res.n  *)
(* counts the calls made.                                                  *)

NoCall ==
  [op |-> "none", loc |-> NoLoc, code |-> <<>>, status |-> "none",
   err |-> "none", lo |-> 0, hi |-> 0, decl |-> -1, n |-> 0]

Returned(op, loc, code, o) ==
  [op |-> op, loc |-> loc, code |-> code, status |-> o.status,
   err |-> o.err, lo |-> o.lo, hi |-> o.hi, decl |-> o.decl, n |-> 1]

Init ==
  /\ \/ \E c \in Files : disk = [p \in {Target, Backup} |->
                                   IF p = Target THEN File(c) ELSE Absent]
     \/ disk = [p \in {Target, Backup} |-> Absent]
  /\ pre = disk
  /\ res = NoCall
  /\ tree = NoTree
  /\ sres = NoSearch
  /\ conc = NoCallers

AddCode ==
  /\ res.op = "none"
  /\ \E code \in Codes, loc \in AddLocators, io \in IO :
       \E o \in add_code(disk, code, loc, io) :
         /\ disk' = o.disk
         /\ pre' = disk
         /\ res' = Returned("add", loc, code, o)
         /\ UNCHANGED <<tree, sres, conc>>

ReplaceCode ==
  /\ res.op = "none"
  /\ \E code \in Codes, loc \in Locators, io \in IO :
       \E o \in replace_code(disk, code, loc, io) :
         /\ disk' = o.disk
         /\ pre' = disk
         /\ res' = Returned("replace", loc, code, o)
         /\ UNCHANGED <<tree, sres, conc>>

DeleteCode ==
  /\ res.op = "none"
  /\ \E loc \in Locators, io \in IO :
       \E o \in delete_code(disk, loc, io) :
         /\ disk' = o.disk
         /\ pre' = disk
         /\ res' = Returned("delete", loc, <<>>, o)
         /\ UNCHANGED <<tree, sres, conc>>

DeleteAgain ==
  /\ res.op = "delete" /\ res.status = "ok" /\ res.n = 1
  /\ \E io \in IO :
       \E o \in delete_code(disk, res.loc, io) :
         /\ disk' = o.disk
         /\ pre' = disk
         /\ res' = [Returned("delete", res.loc, <<>>, o) EXCEPT !.n = 2]
         /\ UNCHANGED <<tree, sres, conc>>

Next == AddCode \/ ReplaceCode \/ DeleteCode \/ DeleteAgain

Spec == Init /\ [][Next]_vars

----------------------------------------------------------------------------
(* The state machine of the search: a codebase, then one search_internal   *)
(* call on it.                                                             *)

InitSearch ==
  /\ tree \in Trees
  /\ sres = NoSearch
  /\ conc = NoCallers
  /\ disk = [p \in {Target, Backup} |-> Absent]
  /\ pre = disk
  /\ res = NoCall

SearchInternal ==
  /\ sres.status = "none"
  /\ \E a \in SearchArgs :
       LET o == search_internal(tree, a)
       IN sres' = [args |-> a, status |-> o.status, matches |-> o.matches]
  /\ UNCHANGED <<tree, disk, pre, res, conc>>

NextSearch == SearchInternal

SpecSearch == InitSearch /\ [][NextSearch]_vars

----------------------------------------------------------------------------
(* The state machine of a sequence of calls: a file on disk, then up to    *)
(* MaxCalls calls one after the other, each started after the one before   *)
(* has returned.  The backup a call leaves is on disk when the next one    *)
(* starts.                                                                 *)

SeqFiles ==
  { <<"x", NL>>, <<"x", NL, "y">>, join(<<DefF, <<SP, "x">> >>) \o <<NL>> }

SeqLocators ==
  {NoLoc,
   [NoLoc EXCEPT !.line_number = <<1>>],
   [NoLoc EXCEPT !.function_name = <<"f">>],
   [NoLoc EXCEPT !.function_name = <<"g">>],
   [NoLoc EXCEPT !.start_line = <<1>>, !.end_line = <<1>>],
   [NoLoc EXCEPT !.start_line = <<3>>, !.end_line = <<3>>]}

SeqAddLocators ==
  {l \in SeqLocators : l.start_line = <<>> /\ l.end_line = <<>>}

InitSeq ==
  /\ \/ \E c \in SeqFiles : disk = [p \in {Target, Backup} |->
                                      IF p = Target THEN File(c) ELSE Absent]
     \/ disk = [p \in {Target, Backup} |-> Absent]
  /\ pre = disk
  /\ res = NoCall
  /\ tree = NoTree
  /\ sres = NoSearch
  /\ conc = NoCallers

SeqAdd ==
  /\ res.n < MaxCalls
  /\ \E code \in Codes, loc \in SeqAddLocators, io \in IO :
       \E o \in add_code(disk, code, loc, io) :
         /\ disk' = o.disk
         /\ pre' = disk
         /\ res' = [Returned("add", loc, code, o) EXCEPT !.n = res.n + 1]
         /\ UNCHANGED <<tree, sres, conc>>

SeqReplace ==
  /\ res.n < MaxCalls
  /\ \E code \in Codes, loc \in SeqLocators, io \in IO :
       \E o \in replace_code(disk, code, loc, io) :
         /\ disk' = o.disk
         /\ pre' = disk
         /\ res' = [Returned("replace", loc, code, o)
                      EXCEPT !.n = res.n + 1]
         /\ UNCHANGED <<tree, sres, conc>>

SeqDelete ==
  /\ res.n < MaxCalls
  /\ \E loc \in SeqLocators, io \in IO :
       \E o \in delete_code(disk, loc, io) :
         /\ disk' = o.disk
         /\ pre' = disk
         /\ res' = [Returned("delete", loc, <<>>, o) EXCEPT !.n = res.n + 1]
         /\ UNCHANGED <<tree, sres, conc>>

NextSeq == SeqAdd \/ SeqReplace \/ SeqDelete

SpecSeq == InitSeq /\ [][NextSeq]_vars

----------------------------------------------------------------------------
(* The steps of the two callers *)

InitConc ==
  /\ \E c \in ConcFiles : disk = [p \in {Target, Backup} |->
                                    IF p = Target THEN File(c) ELSE Absent]
  /\ pre = disk
  /\ res = NoCall
  /\ tree = NoTree
  /\ sres = NoSearch
  /\ \E r1 \in Requests, r2 \in Requests :
       conc = [calls |-> [c \in Callers |-> IF c = 1 THEN r1 ELSE r2],
               overlap |-> FALSE, last |-> 0]

Running(c) == conc.calls[c].pc \notin {"start", "done"}

(* caller c moves to position pc with the fields of its call updated *)
Step(c, r) ==
  conc' = [calls |-> [conc.calls EXCEPT ![c] = r],
           overlap |-> conc.overlap \/ Running(Other(c)),
           last |-> IF r.pc = "done" THEN c ELSE conc.last]

(* `if not os.path.exists(file_path): raise`, then backup_file *)
Begin(c) ==
  LET r == conc.calls[c] IN
  /\ r.pc = "start"
  /\ IF ~exists(disk, Target)
     THEN /\ Step(c, [r EXCEPT !.pc = "done", !.status = "error",
                               !.err = "not_exist"])
          /\ UNCHANGED disk
     ELSE /\ disk' = backup_file(disk)
          /\ Step(c, [r EXCEPT !.pc = "read"])
  /\ UNCHANGED <<pre, res, tree, sres>>

(* read_file_lines, then the edit of the list in memory; an exception      *)
(* leads to the except clause                                              *)
ReadLines(c) ==
  LET r == conc.calls[c] IN
  /\ r.pc = "read"
  /\ IF r.io = "read_fail"
     THEN Step(c, [r EXCEPT !.pc = "restore", !.err = "read"])
     ELSE LET lines == read_file_lines(disk)
              e == edit(r, lines)
          IN IF e.status = "error"
             THEN Step(c, [r EXCEPT !.pc = "restore", !.seen = lines,
                                    !.err = e.err])
             ELSE Step(c, [r EXCEPT !.pc = "write", !.seen = lines])
  /\ UNCHANGED <<disk, pre, res, tree, sres>>

(* write_file_lines, open(file_path, 'w'): the file is truncated, or the   *)
(* open fails                                                              *)
OpenForWrite(c) ==
  LET r == conc.calls[c] IN
  /\ r.pc = "write"
  /\ \/ /\ disk' = [disk EXCEPT ![Target] = File(<<>>)]
        /\ Step(c, [r EXCEPT !.pc = "flush", !.out = lines_to_write(r, disk)])
     \/ /\ r.io = "write_fail"
        /\ UNCHANGED disk
        /\ Step(c, [r EXCEPT !.pc = "restore", !.err = "write"])
  /\ UNCHANGED <<pre, res, tree, sres>>

(* write_file_lines, f.writelines(lines) and the close: the content        *)
(* reaches the file and the call returns, or a prefix of it does and the   *)
(* write fails                                                             *)
Flush(c) ==
  LET r == conc.calls[c] IN
  /\ r.pc = "flush"
  /\ IF r.io = "write_fail"
     THEN \E w \in 0..Len(r.out) :
            /\ disk' = [disk EXCEPT ![Target] = File(SubSeq(r.out, 1, w))]
            /\ Step(c, [r EXCEPT !.pc = "restore", !.err = "write"])
     ELSE /\ disk' = [disk EXCEPT ![Target] = File(r.out)]
          /\ Step(c, [r EXCEPT !.pc = "done", !.status = "ok"])
  /\ UNCHANGED <<pre, res, tree, sres>>

(* the except clause: copy the backup over the file if there is one, raise *)
Restore(c) ==
  LET r == conc.calls[c] IN
  /\ r.pc = "restore"
  /\ disk' = restore(disk)
  /\ Step(c, [r EXCEPT !.pc = "done", !.status = "error"])
  /\ UNCHANGED <<pre, res, tree, sres>>

NextConc ==
  \E c \in Callers :
    Begin(c) \/ ReadLines(c) \/ OpenForWrite(c) \/ Flush(c) \/ Restore(c)

SpecConc == InitConc /\ [][NextConc]_vars

----------------------------------------------------------------------------
(* Vocabulary of the properties *)

PreLines == split_lines(pre[Target].content, 1, <<>>)

PostLines == split_lines(disk[Target].content, 1, <<>>)

LineCount == Len(PreLines)

FileUnchanged == disk[Target] = pre[Target]

IOError == res.err \in {"read", "write"}

BySymbol == res.status = "ok" /\ res.decl >= 0

(* The text of a line without its line terminator *)
Text(line) ==
  IF line # <<>> /\ line[Len(line)] = NL
  THEN SubSeq(line, 1, Len(line) - 1)
  ELSE line

IsBlank(line) == \A k \in 1..Len(line) : line[k] \in Whitespace

(* Number of leading whitespace characters *)
LeadingWidth(line) ==
  IF IsBlank(line) THEN Len(line)
  ELSE Min({k \in 1..Len(line) : line[k] \notin Whitespace}) - 1

IsDecorator(line) ==
  ~IsBlank(line) /\ line[LeadingWidth(line) + 1] = "@"

EndsWithNewline(c) == c # <<>> /\ c[Len(c)] = NL

(* 0-based index one past the last line of the span the call acted on *)
SpanEnd == IF res.op = "add" THEN res.lo - 1 ELSE res.hi

(* 0-based index of the first line of the span the call acted on *)
SpanStart == res.lo - 1

OnlyLine ==
  /\ res.loc.line_number # <<>>
  /\ res.loc.function_name = <<>> /\ res.loc.class_name = <<>>
  /\ res.loc.start_line = <<>> /\ res.loc.end_line = <<>>

OnlyRange ==
  /\ res.loc.line_number = <<>>
  /\ res.loc.function_name = <<>> /\ res.loc.class_name = <<>>
  /\ res.loc.start_line # <<>> /\ res.loc.end_line # <<>>

----------------------------------------------------------------------------
(* C1: a call of add_code, replace_code or delete_code that ends in an     *)
(* error (symbol not found, line out of bounds, no locator, read failure,  *)
(* write failure after the file was truncated or partly written) leaves    *)
(* the target file exactly as it was before the call.                      *)
C1_FailedCallLeavesFile ==
  res.status = "error" => FileUnchanged

(* a write failed in a call on a non-empty file *)
C1_Witness ==
  /\ res.status = "error" /\ res.err = "write"
  /\ pre[Target].exists /\ pre[Target].content # <<>>
  /\ res.op = "replace"

C3_BlockEndsAtFirstDedent ==
  BySymbol =>
    LET base == LeadingWidth(At(PreLines, res.decl))
        stops == {i \in (res.decl + 1)..(LineCount - 1) :
                    /\ ~IsBlank(At(PreLines, i))
                    /\ LeadingWidth(At(PreLines, i)) <= base}
    IN SpanEnd = (IF stops = {} THEN LineCount ELSE Min(stops))

(* C4: a symbol lookup matches a line only where "<kind> <name>" is        *)
(* directly followed by whitespace, "(", ":" or "{"; a longer symbol of    *)
(* which the name is a proper prefix is not acted on.                      *)
C4_TokenBoundedLookup ==
  BySymbol =>
    LET line == At(PreLines, res.decl)
        pat == IF res.loc.function_name # <<>>
               THEN <<"def", SP>> \o res.loc.function_name
               ELSE <<"class", SP>> \o res.loc.class_name
    IN \E k \in 1..(Len(line) - Len(pat)) :
         /\ SubSeq(line, k, k + Len(pat) - 1) = pat
         /\ line[k + Len(pat)] \in Whitespace \cup {"(", ":", "{"}

(* C5: replace_code and delete_code with a line range (s, e) fail with an  *)
(* out-of-range error and leave the file unchanged unless                  *)
(* 1 <= s <= e <= line_count.                                              *)
C5_RangeValidated ==
  (/\ res.op \in {"replace", "delete"} /\ OnlyRange /\ pre[Target].exists
   /\ ~(/\ 1 <= res.loc.start_line[1]
        /\ res.loc.start_line[1] <= res.loc.end_line[1]
        /\ res.loc.end_line[1] <= LineCount))
  => /\ res.status = "error"
     /\ res.err \in {"out_of_bounds", "read"}
     /\ FileUnchanged

FormCount ==
  (IF res.loc.line_number # <<>> THEN 1 ELSE 0)
  + (IF res.loc.function_name # <<>> \/ res.loc.class_name # <<>>
     THEN 1 ELSE 0)
  + (IF res.loc.function_name # <<>> /\ res.loc.class_name # <<>>
     THEN 1 ELSE 0)
  + (IF res.loc.start_line # <<>> \/ res.loc.end_line # <<>> THEN 1 ELSE 0)

C8_AppendKeepsLines ==
  (/\ res.op = "add" /\ OnlyLine /\ pre[Target].exists /\ ~IOError
   /\ res.loc.line_number[1] = LineCount + 1)
  => LET new == split_lines(res.code, 1, <<>>)
     IN /\ res.status = "ok"
        /\ Len(PostLines) = LineCount + Len(new)
        /\ \A i \in 1..LineCount : Text(PostLines[i]) = Text(PreLines[i])
        /\ \A j \in 1..Len(new) :
             Text(PostLines[LineCount + j]) = Text(new[j])

(* C9: a successful call with a non-empty result leaves the file ending    *)
(* with a newline if and only if it ended with one before the call.        *)
C9_TrailingNewlinePreserved ==
  (/\ res.status = "ok"
   /\ pre[Target].content # <<>> /\ disk[Target].content # <<>>)
  => (EndsWithNewline(disk[Target].content)
        <=> EndsWithNewline(pre[Target].content))

(* C10: the span resolved for a symbol starts at the first line of the     *)
(* maximal run of lines directly above the declaration that are blank or   *)
(* begin, after leading whitespace, with "@".                              *)
C10_DecoratorAbsorption ==
  (BySymbol /\ res.op \in {"replace", "delete"}) =>
    /\ 0 <= SpanStart /\ SpanStart <= res.decl
    /\ \A i \in SpanStart..(res.decl - 1) :
         IsBlank(At(PreLines, i)) \/ IsDecorator(At(PreLines, i))
    /\ SpanStart > 0 =>
         ~(IsBlank(At(PreLines, SpanStart - 1))
             \/ IsDecorator(At(PreLines, SpanStart - 1)))

(* a decorator and a blank line above the declaration were absorbed and    *)
(* the statement above them was not *)
C10_Witness ==
  /\ BySymbol /\ res.op = "delete"
  /\ SpanStart > 0 /\ SpanStart + 1 < res.decl
  /\ \E i \in SpanStart..(res.decl - 1) : IsDecorator(At(PreLines, i))
  /\ \E i \in SpanStart..(res.decl - 1) : IsBlank(At(PreLines, i))

----------------------------------------------------------------------------
(* More vocabulary *)

(* The pattern "<kind> <name>" the call looked for *)
Pattern ==
  IF res.loc.function_name # <<>>
  THEN <<"def", SP>> \o res.loc.function_name
  ELSE <<"class", SP>> \o res.loc.class_name

(* Line i (0-based) of the file before the call contains the pattern *)
Mentions(i) ==
  LET line == At(PreLines, i)
  IN \E k \in 1..(Len(line) - Len(Pattern) + 1) :
       SubSeq(line, k, k + Len(Pattern) - 1) = Pattern

(* Line i declares the requested symbol: the pattern followed by           *)
(* whitespace, "(", ":" or "{"                                             *)
Declares(i) ==
  LET line == At(PreLines, i)
  IN \E k \in 1..(Len(line) - Len(Pattern)) :
       /\ SubSeq(line, k, k + Len(Pattern) - 1) = Pattern
       /\ line[k + Len(Pattern)] \in Whitespace \cup {"(", ":", "{"}

OnlySymbol ==
  /\ res.loc.line_number = <<>>
  /\ res.loc.start_line = <<>> /\ res.loc.end_line = <<>>
  /\ (res.loc.function_name = <<>>) # (res.loc.class_name = <<>>)

(* The lines the new text of the call makes up *)
NewLines ==
  IF res.op = "delete" THEN <<>>
  ELSE split_lines(IF EndsWithNewline(res.code) THEN res.code
                   ELSE res.code \o <<NL>>, 1, <<>>)

----------------------------------------------------------------------------
(* C11: for a declaration at indentation 0 the span runs from the          *)
(* declaration up to, but excluding, the next non-blank line at            *)
(* indentation 0, deeper blocks of the body included; in the five-line     *)
(* example resolving the function yields lines 1-4.                        *)
C11_TopLevelSpan ==
  /\ (BySymbol /\ LeadingWidth(At(PreLines, res.decl)) = 0) =>
       LET stops == {i \in (res.decl + 1)..(LineCount - 1) :
                       /\ ~IsBlank(At(PreLines, i))
                       /\ LeadingWidth(At(PreLines, i)) = 0}
       IN /\ SpanEnd = (IF stops = {} THEN LineCount ELSE Min(stops))
          /\ res.decl < SpanEnd
  /\ (/\ pre[Target].content = OuterExample
      /\ res.status = "ok" /\ res.op \in {"replace", "delete"}
      /\ OnlySymbol /\ res.loc.function_name = <<"g">>)
       => res.lo = 1 /\ res.hi = 4

(* the function of the five-line example was replaced *)
C11_Witness ==
  /\ pre[Target].content = OuterExample
  /\ res.status = "ok" /\ res.op = "replace"
  /\ OnlySymbol /\ res.loc.function_name = <<"g">>
  /\ res.hi = 4

(* C12: for every successful replace_code or delete_code the reported      *)
(* 1-based inclusive range is a span of the file as it was before the call *)
(* and is exactly the set of original lines removed or overwritten.        *)
C12_ReportedRangeIsModified ==
  (res.status = "ok" /\ res.op \in {"replace", "delete"}) =>
    /\ 1 <= res.lo /\ res.lo <= res.hi /\ res.hi <= LineCount
    /\ disk[Target].content =
         concat(SubSeq(PreLines, 1, res.lo - 1))
           \o concat(NewLines)
           \o concat(SubSeq(PreLines, res.hi + 1, LineCount))

(* C13: a successful delete_code with a line range never leaves the file   *)
(* unchanged and makes it strictly shorter; the same call repeated either  *)
(* fails with an out-of-range error or again shortens the file.            *)
C13_RepeatedRangeDelete ==
  (res.op = "delete" /\ OnlyRange /\ pre[Target].exists) =>
    /\ res.status = "ok" =>
         /\ disk[Target].content # pre[Target].content
         /\ Len(PostLines) < LineCount
    /\ (res.n = 2 /\ res.status = "error") =>
         res.err \in {"out_of_bounds", "read", "write"}

(* C14: when no line of the file declares the requested function or class, *)
(* add_code, replace_code and delete_code fail with a could-not-find error *)
(* and the file is unchanged.                                              *)
C14_MissingSymbolFails ==
  (/\ res.op # "none" /\ pre[Target].exists /\ OnlySymbol /\ ~IOError
   /\ \A i \in 0..(LineCount - 1) : ~Declares(i))
  => /\ res.status = "error"
     /\ res.err = "not_found"
     /\ FileUnchanged

(* C15 as stated: when several lines match the requested symbol the call   *)
(* acts on the first one only and every later matching declaration is left *)
(* unchanged.                                                              *)
C15_LaterMatchesUntouched ==
  (BySymbol /\ res.op \in {"replace", "delete"}) =>
    \A j \in (res.decl + 1)..(LineCount - 1) : Mentions(j) => j >= SpanEnd

(* C15 amended: the call acts on the span of the first matching line in    *)
(* top-to-bottom order only; every line after that span, a later matching  *)
(* declaration and its body included, is left unchanged.  A later matching *)
(* declaration inside the first one's span (a function of the same name    *)
(* nested in its block) is replaced or deleted with it.                    *)
C15_FirstMatchOnly ==
  BySymbol =>
    /\ Mentions(res.decl)
    /\ \A i \in 0..(res.decl - 1) : ~Mentions(i)
    /\ res.decl < SpanEnd
    /\ res.op \in {"replace", "delete"} => SpanStart <= res.decl
    /\ \A j \in SpanEnd..(LineCount - 1) :
         At(PostLines, j + Len(PostLines) - LineCount) = At(PreLines, j)

(* two lines matched, the first was deleted and the second is still there *)
C15_Witness ==
  /\ BySymbol /\ res.op = "delete"
  /\ \E j \in SpanEnd..(LineCount - 1) :
       /\ Mentions(j)
       /\ At(PostLines, j + Len(PostLines) - LineCount) = At(PreLines, j)

(* C16: a call with a path that does not exist fails and creates nothing:  *)
(* afterwards neither the target file nor "<path>.backup" exists.          *)
C16_MissingPathCreatesNothing ==
  (res.op # "none" /\ ~pre[Target].exists) =>
    /\ res.status = "error"
    /\ res.err = "not_exist"
    /\ ~disk[Target].exists
    /\ ~disk[Backup].exists

(* add_code was called on a missing path *)
C16_Witness ==
  /\ res.op = "add" /\ ~pre[Target].exists
  /\ res.status = "error"

(* C20: every successful replace_code yields the original lines before the *)
(* span, then the new text, then the original lines after the span; no     *)
(* original line is duplicated and none outside the span is dropped.       *)
C20_ReplaceSplices ==
  (res.status = "ok" /\ res.op = "replace") =>
    /\ 0 <= res.lo - 1 /\ res.lo - 1 <= res.hi /\ res.hi <= LineCount
    /\ PostLines =
         SubSeq(PreLines, 1, res.lo - 1) \o NewLines
           \o SubSeq(PreLines, res.hi + 1, LineCount)

----------------------------------------------------------------------------
(* Vocabulary of the search properties *)

Results == sres.matches

Searched == sres.status \in {"ok", "no_matches"}

(* the files the walk reaches and should_process_file accepts *)
ScannedFiles ==
  {fi \in 1..Len(tree.files) :
     walked(tree.files[fi]) /\ should_process_file(tree.root, tree.files[fi])}

LineAt(p) == rstrip(tree.files[p[1]].lines[p[2]])

(* every matching line of every scanned file, as <<file, line number>> *)
AllMatches ==
  {p \in UNION {{<<fi, ln>> : ln \in 1..Len(tree.files[fi].lines)} :
                  fi \in ScannedFiles} :
     match_found(sres.args.mode, sres.args.query, LineAt(p),
                 sres.args.case_sensitive)}

ScoreOf(p) == calculate_relevance_score(LineAt(p), sres.args.query)

(* p is ranked before q: higher score, or equal score and earlier in scan *)
RanksBefore(p, q) ==
  \/ ScoreOf(p) > ScoreOf(q)
  \/ /\ ScoreOf(p) = ScoreOf(q)
     /\ p[1] < q[1] \/ (p[1] = q[1] /\ p[2] < q[2])

ResultKey(i) == <<Results[i].file, Results[i].line_number>>

(* the tier of a matched line: 5 exact full line, 4 definition, 3 starts   *)
(* with the query, 2 word-boundary match, 1 plain substring                *)
Tier(line_content) ==
  LET line == lower(line_content)
      q == lower(sres.args.query)
  IN IF strip(line) = q THEN 5
     ELSE IF \/ contains(line, <<"d", "e", "f", " ">>)
             \/ contains(line, <<"c", "l", "a", "s", "s", " ">>) THEN 4
     ELSE IF startswith(strip(line), q) THEN 3
     ELSE IF search_word(line, q) THEN 2
     ELSE 1

(* the line is a definition of the queried name: it starts with `def` or   *)
(* `function`, then the name, then an opening parenthesis                  *)
IsDefinition(line_content) ==
  LET s == lower(strip(line_content))
      q == lower(sres.args.query)
  IN \E kw \in {<<"d", "e", "f">>,
                <<"f", "u", "n", "c", "t", "i", "o", "n">>} :
       LET j == skip_ws(s, Len(kw) + 1)
       IN /\ startswith(s, kw)
          /\ j > Len(kw) + 1
          /\ match_at(s, j, q)
          /\ match_at(s, skip_ws(s, j + Len(q)), <<"(">>)

----------------------------------------------------------------------------
(* C17: search_internal returns exactly the max_results highest-scoring    *)
(* entries among all matching lines of all scanned files (all of them when *)
(* fewer match), in descending score order with ties in scan order; no     *)
(* matching line is discarded before it has been ranked.                   *)
C17_TopRankedReturned ==
  (Searched /\ sres.args.sort_by_relevance) =>
    /\ Len(Results) =
         IF Cardinality(AllMatches) < sres.args.max_results
         THEN Cardinality(AllMatches) ELSE sres.args.max_results
    /\ \A i \in 1..Len(Results) :
         /\ ResultKey(i) \in AllMatches
         /\ Results[i].confidence = ScoreOf(ResultKey(i))
    /\ \A i \in 1..Len(Results), j \in 1..Len(Results) :
         i < j => RanksBefore(ResultKey(i), ResultKey(j))
    /\ \A p \in AllMatches :
         (\A i \in 1..Len(Results) : ResultKey(i) # p) =>
           \A i \in 1..Len(Results) : RanksBefore(ResultKey(i), p)

----------------------------------------------------------------------------
(* C18: relevance tiers are strictly ordered: of two matched lines the one *)
(* in the higher tier always has the strictly higher score, whatever the   *)
(* number of occurrences of the query in either line.                      *)
C18_TiersStrictlyOrdered ==
  Searched =>
    \A i \in 1..Len(Results), j \in 1..Len(Results) :
      Tier(Results[i].line_content) > Tier(Results[j].line_content) =>
        Results[i].confidence > Results[j].confidence

----------------------------------------------------------------------------
(* C19: in function_def mode a definition line of the queried name always  *)
(* ranks first: when a scanned file holds one, the first result is a       *)
(* definition line, and no line that only calls or mentions the name is    *)
(* ranked above a definition line.                                         *)
C19_DefinitionRanksFirst ==
  (Searched /\ sres.args.mode = "function_def"
     /\ sres.args.sort_by_relevance) =>
    /\ (\E fi \in ScannedFiles :
          \E ln \in 1..Len(tree.files[fi].lines) :
            IsDefinition(LineAt(<<fi, ln>>)))
         => (Results # <<>> /\ IsDefinition(Results[1].line_content))
    /\ \A i \in 1..Len(Results), j \in 1..Len(Results) :
         (i < j /\ IsDefinition(Results[j].line_content))
           => IsDefinition(Results[i].line_content)

----------------------------------------------------------------------------
(* C21: every successful delete_code yields the original lines with one    *)
(* contiguous block, the reported range, removed and nothing added: the    *)
(* result is not longer than the original, holds no original line twice,   *)
(* and is shorter by the number of lines of the reported range.            *)
C21_DeleteRemovesOneBlock ==
  (res.status = "ok" /\ res.op = "delete") =>
    /\ 0 <= res.lo - 1 /\ res.lo - 1 <= res.hi /\ res.hi <= LineCount
    /\ Len(PostLines) = LineCount - (res.hi - res.lo + 1)
    /\ PostLines = SubSeq(PreLines, 1, res.lo - 1)
                     \o SubSeq(PreLines, res.hi + 1, LineCount)

----------------------------------------------------------------------------
(* C22: add_code with after_function or after_class inserts the text at    *)
(* the end index of the resolved span: the result is the original lines up *)
(* to the last line of the span, then the new text, then the original      *)
(* lines after the span; no existing line is removed, changed or moved.    *)
C22_InsertAfterSpan ==
  (BySymbol /\ res.op = "add") =>
    /\ res.decl < SpanEnd /\ SpanEnd <= LineCount
    /\ PostLines = SubSeq(PreLines, 1, SpanEnd) \o NewLines
                     \o SubSeq(PreLines, SpanEnd + 1, LineCount)

----------------------------------------------------------------------------
(* C23: a declaration with no body below it, whose next non-blank line is  *)
(* indented equally or less, resolves to a span whose last non-blank line  *)
(* is the declaration line itself; for nested declarations as well as      *)
(* top-level ones.                                                         *)
C23_BodilessDeclarationSpan ==
  BySymbol =>
    LET base == LeadingWidth(At(PreLines, res.decl))
        below == {i \in (res.decl + 1)..(LineCount - 1) :
                    ~IsBlank(At(PreLines, i))}
    IN (below # {} /\ LeadingWidth(At(PreLines, Min(below))) <= base) =>
         \A i \in (res.decl + 1)..(SpanEnd - 1) : IsBlank(At(PreLines, i))

----------------------------------------------------------------------------
(* The same line with every leading space turned into a tab *)
RECURSIVE Retabbed(_)
Retabbed(line) ==
  IF line # <<>> /\ Head(line) \in {SP, TAB}
  THEN <<TAB>> \o Retabbed(Tail(line))
  ELSE line

SpaceIndented(line) ==
  \A k \in 1..LeadingWidth(line) : line[k] # TAB

(* C24: indentation is compared only as a count of leading whitespace      *)
(* characters: a file indented with spaces and the same file with every    *)
(* leading space replaced by a tab resolve a symbol to the same span.      *)
C24_TabsAndSpacesAlike ==
  (BySymbol /\ \A i \in 0..(LineCount - 1) : SpaceIndented(At(PreLines, i)))
  => LET tabbed == [k \in 1..LineCount |-> Retabbed(PreLines[k])]
         b == find_function_or_class_boundaries(tabbed, res.decl + 1,
                                                <<>>)
     IN /\ b[2] = SpanEnd
        /\ res.op \in {"replace", "delete"} => b[1] = SpanStart

----------------------------------------------------------------------------
(* The call resolves its target from a symbol name *)
SymbolLocator ==
  /\ res.loc.line_number = <<>>
  /\ res.loc.function_name # <<>> \/ res.loc.class_name # <<>>

(* C25: every span resolved from a symbol name satisfies                   *)
(* 0 <= start <= declaration index < end <= line_count, so it is not empty *)
(* and contains the declaration line, and the bounds validation of         *)
(* replace_code and delete_code never rejects a symbol that was found.     *)
C25_SymbolSpanWellFormed ==
  /\ BySymbol =>
       /\ 0 <= res.decl /\ res.decl < SpanEnd /\ SpanEnd <= LineCount
       /\ res.op \in {"replace", "delete"} =>
            (0 <= SpanStart /\ SpanStart <= res.decl)
  /\ (/\ res.op \in {"replace", "delete"} /\ SymbolLocator
      /\ pre[Target].exists /\ ~IOError
      /\ \E i \in 0..(LineCount - 1) : Mentions(i))
     => (res.status = "ok" /\ res.decl >= 0)

(* a replace by symbol whose span starts above the declaration, after the  *)
(* first line of the file, and ends before the end of the file             *)
C25_Witness ==
  /\ BySymbol /\ res.op = "replace"
  /\ 0 < SpanStart /\ SpanStart < res.decl
  /\ SpanEnd < LineCount

----------------------------------------------------------------------------
(* C28: a symbol's span covers every blank line directly after its body,   *)
(* up to the next boundary line or the end of the file, and every blank or *)
(* decorator line directly above its declaration; so blank lines between   *)
(* two declarations belong to the spans of both, and delete_code by symbol *)
(* leaves no blank line where the span was.                                *)
C28_SpanCoversSurroundingBlanks ==
  BySymbol =>
    /\ SpanEnd = LineCount \/ ~IsBlank(At(PreLines, SpanEnd))
    /\ res.op \in {"replace", "delete"} =>
         /\ \A i \in SpanStart..(res.decl - 1) :
              IsBlank(At(PreLines, i)) \/ IsDecorator(At(PreLines, i))
         /\ SpanStart = 0 \/
              ~(IsBlank(At(PreLines, SpanStart - 1))
                  \/ IsDecorator(At(PreLines, SpanStart - 1)))
    /\ res.op = "delete" =>
         /\ Len(PostLines) = LineCount - (SpanEnd - SpanStart)
         /\ SpanStart > 0 => ~IsBlank(At(PostLines, SpanStart - 1))
         /\ SpanStart < Len(PostLines) => ~IsBlank(At(PostLines, SpanStart))

(* a declaration, blank lines below it, then a boundary line: the delete   *)
(* by symbol took the blank lines with the declaration                     *)
C28_Witness ==
  /\ BySymbol /\ res.op = "delete"
  /\ res.decl + 1 < SpanEnd /\ SpanEnd < LineCount
  /\ IsBlank(At(PreLines, SpanEnd - 1))
  /\ Len(PostLines) = LineCount - (SpanEnd - SpanStart)
  /\ ~IsBlank(At(PostLines, SpanStart))

----------------------------------------------------------------------------
(* The number of lines of a file content that contain the pattern *)
MentionCount(content) ==
  LET lines == split_lines(content, 1, <<>>)
  IN Cardinality({i \in 1..Len(lines) : contains(lines[i], Pattern)})

FunctionLocator ==
  res.loc.line_number = <<>> /\ res.loc.function_name # <<>>

(* C29: on a file in which exactly one line contains `def n`,              *)
(* delete_code(function_name=n) applied twice in a row succeeds the first  *)
(* time and fails the second time with could-not-find, and the second call *)
(* leaves the file as the first call left it.                              *)
C29_SecondDeleteFindsNothing ==
  /\ (/\ res.op = "delete" /\ res.n = 1 /\ FunctionLocator
      /\ pre[Target].exists /\ ~IOError
      /\ MentionCount(pre[Target].content) = 1)
     => /\ res.status = "ok"
        /\ MentionCount(disk[Target].content) = 0
  /\ (/\ res.op = "delete" /\ res.n = 2 /\ FunctionLocator /\ ~IOError
      /\ MentionCount(pre[Backup].content) = 1)
     => /\ res.status = "error" /\ res.err = "not_found"
        /\ FileUnchanged

(* the second delete failed with could-not-find on the non-empty file the  *)
(* first delete left                                                       *)
C29_Witness ==
  /\ res.op = "delete" /\ res.n = 2 /\ FunctionLocator
  /\ MentionCount(pre[Backup].content) = 1
  /\ res.err = "not_found" /\ FileUnchanged
  /\ disk[Target].content # <<>>
  /\ disk[Target].content # pre[Backup].content

----------------------------------------------------------------------------
(* The file has an included extension and no ignored directory name on its *)
(* path relative to the search root                                        *)
EligibleFile(f) ==
  /\ f.ext \in file_extensions
  /\ \A p \in 1..Len(f.dirs) : f.dirs[p] \notin ignore_dirs

(* C30: whether search_internal scans a file depends only on its path      *)
(* relative to the search root: a matching line of a file with an included *)
(* extension and no ignored directory on its relative path is found,       *)
(* whatever directory names occur in the root's own path.                  *)
C30_ScanDependsOnRelativePath ==
  Searched =>
    \A fi \in 1..Len(tree.files) :
      (/\ EligibleFile(tree.files[fi])
       /\ \E ln \in 1..Len(tree.files[fi].lines) :
            match_found(sres.args.mode, sres.args.query,
                        rstrip(tree.files[fi].lines[ln]),
                        sres.args.case_sensitive))
      => sres.status = "ok"

----------------------------------------------------------------------------
(* The last call ran into its except clause, which restores the file from  *)
(* the backup; a call on a missing path raises before the try block        *)
Restored == res.status = "error" /\ res.err # "not_exist"

(* C27: in a sequence of calls made one after the other, whenever a call   *)
(* restores the file from the backup, the backup holds the content the     *)
(* file had at the start of that same call: a backup left by an earlier    *)
(* call is overwritten before it can be used, so a restore never brings    *)
(* back older content.                                                     *)
C27_RestoreUsesOwnBackup ==
  Restored =>
    /\ disk[Backup] = pre[Target]
    /\ disk[Target] = pre[Target]

(* a later call failed while writing and restored the file, although an    *)
(* older backup with other content was on disk when it started            *)
C27_Witness ==
  /\ res.n >= 2 /\ Restored /\ res.err = "write"
  /\ pre[Backup].exists /\ pre[Backup].content # pre[Target].content
  /\ disk[Target] = pre[Target]

----------------------------------------------------------------------------
(* Vocabulary of the two-caller property *)

BothReturned == \A c \in Callers : conc.calls[c].pc = "done"

(* the file after the call of caller c and then the call of the other      *)
(* caller, each run as a whole, from the initial disk                      *)
SerialOutcomes(c) ==
  UNION {{o2.disk[Target] :
            o2 \in whole_call(conc.calls[Other(c)], o1.disk)} :
           o1 \in whole_call(conc.calls[c], pre)}

NonSerial ==
  /\ BothReturned
  /\ disk[Target] \notin SerialOutcomes(1) \cup SerialOutcomes(2)

(* C26: the backup, read, write, restore sequence is not atomic across     *)
(* callers.  A call writes the edit of the lines it read at its own read   *)
(* step, whatever the file holds by the time it writes, and a failing call *)
(* copies back whatever the shared backup holds; the call that returns     *)
(* last decides the file.  So when the steps of two calls interleave the   *)
(* final content can equal neither serial order (C26_Witness), and it does *)
(* so only when the calls overlapped.                                      *)
C26_LastWriterWins ==
  /\ NonSerial => conc.overlap
  /\ \A c \in Callers :
       LET r == conc.calls[c] IN
       /\ r.status = "ok" => r.out = edit(r, r.seen).content
       /\ (BothReturned /\ conc.last = c /\ r.status = "ok")
            => disk[Target].content = r.out
       /\ (BothReturned /\ conc.last = c /\ r.status = "error"
             /\ r.err # "not_exist")
            => disk[Target] = disk[Backup]

(* both calls succeeded, the one that returned last wrote the edit of the  *)
(* initial content, read before the other call saved its own: the other    *)
(* call's saved content is gone and the file equals neither serial order   *)
C26_Witness ==
  /\ NonSerial
  /\ \A c \in Callers : conc.calls[c].status = "ok"
  /\ conc.last \in Callers
  /\ concat(conc.calls[conc.last].seen) = pre[Target].content
  /\ disk[Target].content = conc.calls[conc.last].out
  /\ conc.calls[Other(conc.last)].out # pre[Target].content

====
